---- MODULE Spec2Model ----
(***************************************************************************)
(* blender/run_blender_glass.py: a procedural script that reads two        *)
(* simulation results, builds a stereo DIC scene in the host application   *)
(* (a speckled sample behind a glass window), renders the deformed images  *)
(* and saves the project file.                                             *)
(*                                                                         *)
(* A state is the position of the script (pc: the source line of the next  *)
(* statement), its module namespace (locals), the collaborator call in     *)
(* progress (pending), the log of collaborator calls issued (calls), and   *)
(* what the collaborators hold: the host scene, its object and material    *)
(* registries and the files written.  Each statement that calls a          *)
(* collaborator is one action with two halves: the call is issued, and the *)
(* call returns and its result is bound.  A collaborator call may raise;   *)
(* the script has no try/except, so an exception ends the run.             *)
(***************************************************************************)
EXTENDS Integers, Sequences, FiniteSets, TLC

\* ---------------------------------------------------------------- bounds
\* Number of deformation timesteps held by a simulation result.
NumTimesteps == 2
\* Largest value of the renderer's sampling seed (0..MaxNoise).
MaxNoise == 1
\* Number of runs of the script a behaviour may hold (repeated runs).
MaxRuns == 2

\* ------------------------------------------------------- program literals
scale == 1000
threads == 8
samples == 40
sim_spat_dim == 3
disp_comps == <<"disp_x", "disp_y", "disp_z">>
glass_object_name == "Part.001"
glass_material_name == "Material.001"

\* ------------------------------------------------------------ environment
\* Values the stereo-rig selector of line 98 may be edited to.
Selectors == {"symmetric", "faceon", "other"}
\* Working directories the script may be started in.
Cwds == {<<"home", "user">>, <<"work">>}
\* Registry names the host may give to the objects made by add_part.
NamePool == {"Part", "Part.001", "Part.002"}
\* The names given to the first and to the second part, and the names
\* already registered in the host for objects the script did not make.
NameSchemes ==
    {s \in [first : NamePool, second : NamePool, stale : SUBSET NamePool] :
        /\ s.first # s.second
        /\ s.first \notin s.stale
        /\ s.second \notin s.stale
        /\ Cardinality(s.stale) <= 1}
\* The source lines that call into a collaborator (0: no call fails).
CallLines ==
    {33, 34, 37, 47, 50, 54, 59, 78, 81, 82, 85, 88, 90, 100, 104, 110, 112,
     119, 125, 130, 131, 137, 138, 140, 141, 144, 145, 157, 166, 183}

VARIABLES
    stereo_setup,   \* line 98: the stereo-rig selector
    cwd,            \* Path.cwd()
    hostNames,      \* the host's naming of the objects
    failLine,       \* the line whose collaborator call raises (0: none)
    run,            \* the number of this run of the script
    prev,           \* what the previous runs issued and wrote
    pc,             \* the source line of the next statement
    status,         \* "running", "done" or "failed"
    error,          \* the exception that ended the run
    locals,         \* the module namespace: name -> value
    pending,        \* the collaborator calls in progress
    calls,          \* the collaborator calls issued, in order
    hostScene,      \* whether blender.Scene() has made a scene
    objects,        \* the host's objects: id -> object
    registry,       \* bpy.data.objects: name -> id
    materials,      \* bpy.data.materials: name -> material
    cameras,        \* the stereo systems added to the scene
    lights,         \* the lights added to the scene
    files           \* the files written, in order

inputs == <<stereo_setup, cwd, hostNames, failLine>>
host == <<hostScene, objects, registry, materials, cameras, lights, files>>
vars == <<stereo_setup, cwd, hostNames, failLine, run, prev, pc, status,
          error, locals, pending, calls, hostScene, objects, registry,
          materials, cameras, lights, files>>

\* ---------------------------------------------------------------- helpers
\* name = value in the module namespace.
Bind(name, value) == (name :> value) @@ locals

Bound(name) == name \in DOMAIN locals

\* pathlib: p / "a/b"
PathJoin(p, parts) == p \o parts

\* The object left in the host by an earlier session.
StaleObject ==
    [kind |-> "stale", mesh |-> <<>>, location |-> <<0, 0, 0>>,
     rotation |-> <<0, 0, 0>>, speckle |-> <<>>, active_material |-> "none",
     deformed |-> FALSE]

\* A fresh host: only the stale names are registered.
FreshObjects == IF hostNames.stale = {} THEN <<>> ELSE <<StaleObject>>

FreshRegistry == [n \in hostNames.stale |-> 1]

\* The registry name the host gives to the next object made by add_part.
NextPartName ==
    IF Len(objects) = Len(FreshObjects) THEN hostNames.first
    ELSE hostNames.second

\* ------------------------------------------------------------------- Init
InitRun ==
    /\ pc = 33
    /\ status = "running"
    /\ error = "none"
    /\ locals = <<>>
    /\ pending = <<>>
    /\ calls = <<>>
    /\ hostScene = FALSE
    /\ objects = FreshObjects
    /\ registry = FreshRegistry
    /\ materials = <<>>
    /\ cameras = <<>>
    /\ lights = <<>>
    /\ files = <<>>

Init ==
    /\ stereo_setup \in Selectors
    /\ cwd \in Cwds
    /\ hostNames \in NameSchemes
    /\ failLine \in CallLines \cup {0}
    /\ run = 1
    /\ prev = <<>>
    /\ InitRun

\* ------------------------------------------------------ statement halves
\* Issue, were the call started without waiting for the one in progress.
Issue_without_waiting(line, fn, args) ==
    /\ status = "running"
    /\ pc = line
    /\ Len(pending) < 2
    /\ pending' = Append(pending, [line |-> line, fn |-> fn, args |-> args])
    /\ calls' = Append(calls, [line |-> line, fn |-> fn, args |-> args])
    /\ UNCHANGED <<inputs, run, prev, pc, status, error, locals, host>>

\* The script is at `line`, no call is in progress: the call is issued.
Issue(line, fn, args) ==
    /\ status = "running"
    /\ pc = line
    /\ pending = <<>>
    /\ pending' = <<[line |-> line, fn |-> fn, args |-> args]>>
    /\ calls' = Append(calls, [line |-> line, fn |-> fn, args |-> args])
    /\ UNCHANGED <<inputs, run, prev, pc, status, error, locals, host>>

\* The call issued at `line` returns normally; the caller goes on to `next`.
Returns(line, next) ==
    /\ status = "running"
    /\ pc = line
    /\ pending # <<>>
    /\ failLine # line
    /\ pending' = <<>>
    /\ pc' = next
    /\ UNCHANGED <<inputs, run, prev, status, error, calls>>

\* A statement that calls nothing: it runs in one step.
Local(line, next) ==
    /\ status = "running"
    /\ pc = line
    /\ pending = <<>>
    /\ pc' = next
    /\ UNCHANGED <<inputs, run, prev, status, error, pending, calls, host>>

\* An exception leaves the module: nothing catches it, the run is over.
Fail(what) ==
    /\ status' = "failed"
    /\ error' = what
    /\ pending' = <<>>
    /\ UNCHANGED <<inputs, run, prev, pc, locals, calls, host>>

\* CollaboratorRaises, were the exception caught and the statement retried.
CollaboratorRaises_retried ==
    /\ status = "running"
    /\ pending # <<>>
    /\ failLine = pending[1].line
    /\ pending' = <<>>
    /\ UNCHANGED <<inputs, run, prev, pc, status, error, locals, calls, host>>

\* The collaborator call in progress raises.
CollaboratorRaises ==
    /\ status = "running"
    /\ pending # <<>>
    /\ failLine = pending[1].line
    /\ Fail("collaborator")

\* ------------------------------------------------ collaborators' results
\* mh.ExodusReader(path).read_all_sim_data()
read_all_sim_data(path) ==
    [file |-> path, length_scale |-> 1, timesteps |-> NumTimesteps]

\* sens.scale_length_units(scale, sim_data, disp_comps)
scale_length_units(sc, sim_data, comps) ==
    [sim_data EXCEPT !.length_scale = @ * sc]

\* sens.create_render_mesh(sim_data, (..), sim_spat_dim, field_disp_keys)
create_render_mesh(sim_data, comps, dim, keys) ==
    [sim_data |-> sim_data, components |-> comps, sim_spat_dim |-> dim,
     field_disp_keys |-> keys]

\* The object scene.add_part makes of a render mesh; the mesh is kept in a
\* one-element tuple (an object without a mesh holds the empty tuple).
NewPart(mesh) ==
    [kind |-> "part", mesh |-> <<mesh>>, location |-> <<0, 0, 0>>,
     rotation |-> <<0, 0, 0>>, speckle |-> <<>>, active_material |-> "none",
     deformed |-> FALSE]

\* ---------------------------------------------------- lines 33-62: input
\* data_path1 = dataset.render_mechanical_3d_path()
L33_data_path1 ==
    \/ Issue(33, "dataset.render_mechanical_3d_path", <<>>)
    \/ /\ Returns(33, 34)
       /\ locals' = Bind("data_path1",
                         <<"pyvale", "data", "render_mechanical_3d.e">>)
       /\ UNCHANGED host

\* sim_data1 = mh.ExodusReader(data_path1).read_all_sim_data()
L34_sim_data1 ==
    \/ Issue(34, "ExodusReader.read_all_sim_data", <<locals["data_path1"]>>)
    \/ /\ Returns(34, 36)
       /\ locals' = Bind("sim_data1", read_all_sim_data(locals["data_path1"]))
       /\ UNCHANGED host

\* data_path2 = Path.cwd() / "moose/input/circular_glass_out.e"
L36_data_path2 ==
    /\ Local(36, 37)
    /\ locals' = Bind("data_path2",
            PathJoin(cwd, <<"moose", "input", "circular_glass_out.e">>))

\* sim_data2 = mh.ExodusReader(data_path2).read_all_sim_data()
L37_sim_data2 ==
    \/ Issue(37, "ExodusReader.read_all_sim_data", <<locals["data_path2"]>>)
    \/ /\ Returns(37, 47)
       /\ locals' = Bind("sim_data2", read_all_sim_data(locals["data_path2"]))
       /\ UNCHANGED host

\* sim_data1 = sens.scale_length_units(scale=1000.0, sim_data=sim_data1, ..)
L47_scale1 ==
    \/ Issue(47, "sens.scale_length_units",
             <<scale, locals["sim_data1"], disp_comps>>)
    \/ /\ Returns(47, 50)
       /\ locals' = Bind("sim_data1",
            scale_length_units(scale, locals["sim_data1"], disp_comps))
       /\ UNCHANGED host

\* sim_data2 = sens.scale_length_units(scale=1000.0, sim_data=sim_data2, ..)
L50_scale2 ==
    \/ Issue(50, "sens.scale_length_units",
             <<scale, locals["sim_data2"], disp_comps>>)
    \/ /\ Returns(50, 54)
       /\ locals' = Bind("sim_data2",
            scale_length_units(scale, locals["sim_data2"], disp_comps))
       /\ UNCHANGED host

\* render_mesh1 = sens.create_render_mesh(sim_data1, ("disp_y","disp_x"), ..)
L54_render_mesh1 ==
    \/ Issue(54, "sens.create_render_mesh",
             <<locals["sim_data1"], <<"disp_y", "disp_x">>, sim_spat_dim,
               disp_comps>>)
    \/ /\ Returns(54, 59)
       /\ locals' = Bind("render_mesh1",
            create_render_mesh(locals["sim_data1"], <<"disp_y", "disp_x">>,
                               sim_spat_dim, disp_comps))
       /\ UNCHANGED host

\* render_mesh2 = sens.create_render_mesh(sim_data2, ("disp_y","disp_x"), ..)
L59_render_mesh2 ==
    \/ Issue(59, "sens.create_render_mesh",
             <<locals["sim_data2"], <<"disp_y", "disp_x">>, sim_spat_dim,
               disp_comps>>)
    \/ /\ Returns(59, 70)
       /\ locals' = Bind("render_mesh2",
            create_render_mesh(locals["sim_data2"], <<"disp_y", "disp_x">>,
                               sim_spat_dim, disp_comps))
       /\ UNCHANGED host

\* L70_base_dir, were the directory named after the run.
L70_base_dir_per_run ==
    /\ Local(70, 78)
    /\ locals' = Bind("base_dir",
            PathJoin(cwd, <<"blender", "glass",
                            IF run = 1 THEN "first" ELSE "later">>))

\* base_dir = Path.cwd() / "blender/glass"
L70_base_dir ==
    /\ Local(70, 78)
    /\ locals' = Bind("base_dir", PathJoin(cwd, <<"blender", "glass">>))

\* ------------------------------------------- lines 78-88: scene and parts
\* scene = blender.Scene()
L78_scene ==
    \/ Issue(78, "blender.Scene", <<>>)
    \/ /\ Returns(78, 81)
       /\ locals' = Bind("scene", "scene")
       /\ hostScene' = TRUE
       /\ UNCHANGED <<objects, registry, materials, cameras, lights, files>>

\* scene.add_part(render_mesh, sim_spat_dim=3): the host makes an object of
\* the mesh and registers it under the name the host chooses.
add_part(target, mesh) ==
    /\ locals' = Bind(target, Len(objects) + 1)
    /\ objects' = Append(objects, NewPart(mesh))
    /\ registry' = (NextPartName :> (Len(objects) + 1)) @@ registry
    /\ UNCHANGED <<hostScene, materials, cameras, lights, files>>

\* part = scene.add_part(render_mesh1, sim_spat_dim=3)
L81_part ==
    \/ Issue(81, "scene.add_part", <<locals["render_mesh1"], sim_spat_dim>>)
    \/ /\ Returns(81, 82)
       /\ add_part("part", locals["render_mesh1"])

\* window = scene.add_part(render_mesh2, sim_spat_dim=3)
L82_window ==
    \/ Issue(82, "scene.add_part", <<locals["render_mesh2"], sim_spat_dim>>)
    \/ /\ Returns(82, 85)
       /\ add_part("window", locals["render_mesh2"])

\* window_location = np.array([0, 0, 200])
\* blender.Tools.move_blender_obj(part=window, pos_world=window_location)
L85_move_window ==
    \/ Issue(85, "Tools.move_blender_obj", <<locals["window"], <<0, 0, 200>>>>)
    \/ /\ Returns(85, 88)
       /\ objects' = [objects EXCEPT
                        ![locals["window"]].location = <<0, 0, 200>>]
       /\ UNCHANGED <<locals, hostScene, registry, materials, cameras,
                      lights, files>>

\* part_rotation = Rotation.from_euler("xyz", [0, 0, 0], degrees=True)
\* blender.Tools.rotate_blender_obj(part=part, rot_world=part_rotation)
L88_rotate_part ==
    \/ Issue(88, "Tools.rotate_blender_obj", <<locals["part"], <<0, 0, 0>>>>)
    \/ /\ Returns(88, 90)
       /\ objects' = [objects EXCEPT ![locals["part"]].rotation = <<0, 0, 0>>]
       /\ UNCHANGED <<locals, hostScene, registry, materials, cameras,
                      lights, files>>

\* ------------------------------------------ lines 90-112: the stereo rig
\* sens.CameraData(pixels_num=.., pixels_size=.., pos_world=.., ..)
CameraData ==
    [pixels_num |-> <<5328, 4608>>, pixels_size |-> <<"0.00345", "0.00345">>,
     pos_world |-> <<0, 0, 400>>, rot_world |-> <<"0", "0", "0">>,
     roi_cent_world |-> <<0, 0, 0>>, focal_length |-> "15.0"]

\* sens.CameraTools.symmetric_stereo_cameras(cam_data_0, stereo_angle)
symmetric_stereo_cameras(cam_data_0, stereo_angle) ==
    [built_by |-> "symmetric", stereo_angle |-> stereo_angle,
     cam_data_0 |-> cam_data_0,
     cam_data_1 |-> [cam_data_0 EXCEPT !.rot_world = <<"0", stereo_angle, "0">>]]

\* sens.CameraTools.faceon_stereo_cameras(cam_data_0, stereo_angle)
faceon_stereo_cameras(cam_data_0, stereo_angle) ==
    [built_by |-> "faceon", stereo_angle |-> stereo_angle,
     cam_data_0 |-> cam_data_0,
     cam_data_1 |-> [cam_data_0 EXCEPT !.rot_world = <<"0", stereo_angle, "0">>]]

\* cam_data_0 = sens.CameraData(..)
L90_cam_data_0 ==
    \/ Issue(90, "sens.CameraData", <<CameraData>>)
    \/ /\ Returns(90, 99)
       /\ locals' = Bind("cam_data_0", CameraData)
       /\ UNCHANGED host

\* StereoBranch, were the else branch a default to the face-on rig.
StereoBranch_default_faceon(selector) ==
    IF selector = "symmetric" THEN 100 ELSE 104

\* StereoBranch, were the two conditions testing the same string.
StereoBranch_same_test(selector) ==
    IF selector = "faceon" THEN 100
    ELSE IF selector = "faceon" THEN 104
    ELSE 108

\* The branch the if/elif/else of lines 99-108 takes for a selector.
StereoBranch(selector) ==
    IF selector = "symmetric" THEN 100
    ELSE IF selector = "faceon" THEN 104
    ELSE 108

\* if stereo_setup == "symmetric": .. elif stereo_setup == "faceon": .. else:
L99_if_stereo_setup ==
    /\ Local(99, StereoBranch(stereo_setup))
    /\ UNCHANGED locals

\* stereo_system = sens.CameraTools.symmetric_stereo_cameras(
\*     cam_data_0=cam_data_0, stereo_angle=15.0)
L100_symmetric ==
    \/ Issue(100, "CameraTools.symmetric_stereo_cameras",
             <<locals["cam_data_0"], "15.0">>)
    \/ /\ Returns(100, 110)
       /\ locals' = Bind("stereo_system",
            symmetric_stereo_cameras(locals["cam_data_0"], "15.0"))
       /\ UNCHANGED host

\* stereo_system = sens.CameraTools.faceon_stereo_cameras(
\*     cam_data_0=cam_data_0, stereo_angle=10.0)
L104_faceon ==
    \/ Issue(104, "CameraTools.faceon_stereo_cameras",
             <<locals["cam_data_0"], "10.0">>)
    \/ /\ Returns(104, 110)
       /\ locals' = Bind("stereo_system",
            faceon_stereo_cameras(locals["cam_data_0"], "10.0"))
       /\ UNCHANGED host

\* raise ValueError(f"Unknown stereo_setup: {stereo_setup}")
L108_raise ==
    /\ status = "running"
    /\ pc = 108
    /\ pending = <<>>
    /\ Fail("Unknown stereo_setup")

\* cam0, cam1 = scene.add_stereo_system(stereo_system)
L110_add_stereo_system ==
    \/ Issue(110, "scene.add_stereo_system", <<locals["stereo_system"]>>)
    \/ /\ Returns(110, 112)
       /\ cameras' = Append(cameras, locals["stereo_system"])
       /\ locals' = ("cam0" :> <<Len(cameras) + 1, 0>>) @@
                     Bind("cam1", <<Len(cameras) + 1, 1>>)
       /\ UNCHANGED <<hostScene, objects, registry, materials, lights, files>>

\* A file written by a collaborator.
File(kind, dir, name, content) ==
    [kind |-> kind, dir |-> dir, name |-> name, content |-> content]

\* L112_save_calibration, were the render issued right after it.
L112_save_calibration_then_render ==
    \/ Issue(112, "stereo_system.save_calibration",
             <<locals["stereo_system"], locals["base_dir"]>>)
    \/ /\ Returns(112, 157)
       /\ files' = Append(files, File("calibration", locals["base_dir"],
                                     <<"calibration">>,
                                     <<locals["stereo_system"]>>))
       /\ UNCHANGED <<locals, hostScene, objects, registry, materials,
                      cameras, lights>>

\* stereo_system.save_calibration(base_dir)
L112_save_calibration ==
    \/ Issue(112, "stereo_system.save_calibration",
             <<locals["stereo_system"], locals["base_dir"]>>)
    \/ /\ Returns(112, 114)
       /\ files' = Append(files, File("calibration", locals["base_dir"],
                                     <<"calibration">>,
                                     <<locals["stereo_system"]>>))
       /\ UNCHANGED <<locals, hostScene, objects, registry, materials,
                      cameras, lights>>

\* ------------------------------------ lines 114-134: light and speckle
\* blender.LightData(type=POINT, pos_world=(200, 0, 200), rot_world=..,
\*                   energy=2)
LightData ==
    [type |-> "POINT", pos_world |-> <<200, 0, 200>>,
     rot_world |-> <<"0", "0.8", "0">>, energy |-> 2]

\* light_data = blender.LightData(..)
L114_light_data ==
    /\ Local(114, 119)
    /\ locals' = Bind("light_data", LightData)

\* light = scene.add_light(light_data)
L119_add_light ==
    \/ Issue(119, "scene.add_light", <<locals["light_data"]>>)
    \/ /\ Returns(119, 124)
       /\ lights' = Append(lights, locals["light_data"])
       /\ locals' = Bind("light", Len(lights) + 1)
       /\ UNCHANGED <<hostScene, objects, registry, materials, cameras,
                      files>>

\* material_data = blender.MaterialData()
L124_material_data ==
    /\ Local(124, 125)
    /\ locals' = Bind("material_data", "MaterialData()")

\* speckle_path = dataset.dic_pattern_5mpx_path()
L125_speckle_path ==
    \/ Issue(125, "dataset.dic_pattern_5mpx_path", <<>>)
    \/ /\ Returns(125, 130)
       /\ locals' = Bind("speckle_path",
                         <<"pyvale", "data", "dic_pattern_5mpx.tiff">>)
       /\ UNCHANGED host

\* mm_px_resolution = sens.CameraTools.calculate_mm_px_resolution(cam_data_0)
L130_mm_px_resolution ==
    \/ Issue(130, "CameraTools.calculate_mm_px_resolution",
             <<locals["cam_data_0"]>>)
    \/ /\ Returns(130, 131)
       /\ locals' = Bind("mm_px_resolution", <<"mm/px", locals["cam_data_0"]>>)
       /\ UNCHANGED host

\* scene.add_speckle(part=part, speckle_path=speckle_path,
\*                   mat_data=material_data, mm_px_resolution=..)
L131_add_speckle ==
    \/ Issue(131, "scene.add_speckle",
             <<locals["part"], locals["speckle_path"],
               locals["material_data"], locals["mm_px_resolution"]>>)
    \/ /\ Returns(131, 137)
       /\ objects' = [objects EXCEPT
                        ![locals["part"]].speckle = <<locals["speckle_path"]>>]
       /\ UNCHANGED <<locals, hostScene, registry, materials, cameras,
                      lights, files>>

\* --------------------------------- lines 136-145: the glass material
\* The material bpy.data.materials.new makes.
NewMaterial ==
    [use_nodes |-> FALSE, nodes |-> {}, ior |-> "default", links |-> {}]

\* bpy.data.materials.new("Material.001")
L137_materials_new ==
    \/ Issue(137, "bpy.data.materials.new", <<glass_material_name>>)
    \/ /\ Returns(137, 138)
       /\ materials' = (glass_material_name :> NewMaterial) @@ materials
       /\ UNCHANGED <<locals, hostScene, objects, registry, cameras, lights,
                      files>>

\* A by-name lookup in a registry of the host fails: KeyError.
LookupFails(line, name, reg) ==
    /\ status = "running"
    /\ pc = line
    /\ pending # <<>>
    /\ name \notin DOMAIN reg
    /\ Fail("KeyError")

\* bpy.data.materials["Material.001"].use_nodes = True
L138_use_nodes ==
    \/ Issue(138, "bpy.data.materials[].use_nodes", <<glass_material_name>>)
    \/ /\ Returns(138, 140)
       /\ glass_material_name \in DOMAIN materials
       /\ materials' = [materials EXCEPT ![glass_material_name] =
            [@ EXCEPT !.use_nodes = TRUE,
                      !.nodes = {"Principled BSDF", "Material Output"}]]
       /\ UNCHANGED <<locals, hostScene, objects, registry, cameras, lights,
                      files>>

\* mat_nodes = bpy.data.materials["Material.001"].node_tree.nodes
\* glass = mat_nodes.new(type="ShaderNodeBsdfGlass")
L140_glass_node ==
    \/ Issue(140, "node_tree.nodes.new",
             <<glass_material_name, "ShaderNodeBsdfGlass">>)
    \/ /\ Returns(140, 141)
       /\ glass_material_name \in DOMAIN materials
       /\ materials' = [materials EXCEPT ![glass_material_name].nodes =
                            @ \cup {"Glass BSDF"}]
       /\ locals' = Bind("glass", "Glass BSDF")
       /\ UNCHANGED <<hostScene, objects, registry, cameras, lights, files>>

\* glass.inputs["IOR"].default_value = 1.3777
L141_ior ==
    \/ Issue(141, "glass.inputs[IOR].default_value", <<"1.3777">>)
    \/ /\ Returns(141, 144)
       /\ materials' = [materials EXCEPT ![glass_material_name].ior = "1.3777"]
       /\ UNCHANGED <<locals, hostScene, objects, registry, cameras, lights,
                      files>>

\* inp = ..nodes["Material Output"].inputs["Surface"]
\* outp = ..nodes["Glass BSDF"].outputs["BSDF"]
\* bpy.data.materials["Material.001"].node_tree.links.new(inp, outp)
L144_link ==
    \/ Issue(144, "node_tree.links.new",
             <<glass_material_name, "Material Output", "Glass BSDF">>)
    \/ /\ Returns(144, 145)
       /\ {"Material Output", "Glass BSDF"} \subseteq
             materials[glass_material_name].nodes
       /\ materials' = [materials EXCEPT ![glass_material_name].links =
                            @ \cup {<<"Material Output", "Glass BSDF">>}]
       /\ UNCHANGED <<locals, hostScene, objects, registry, cameras, lights,
                      files>>

\* GlassTarget, were the reference held from add_part used.
GlassTarget_held_reference(name) == locals["window"]

\* The object the glass material is assigned to: bpy.data.objects[name].
GlassTarget(name) == registry[name]

\* bpy.data.objects["Part.001"].active_material =
\*     bpy.data.materials["Material.001"]
L145_assign_glass ==
    \/ Issue(145, "bpy.data.objects[].active_material",
             <<glass_object_name, glass_material_name>>)
    \/ LookupFails(145, glass_object_name, registry)
    \/ /\ Returns(145, 157)
       /\ glass_object_name \in DOMAIN registry
       /\ objects' = [objects EXCEPT
            ![GlassTarget(glass_object_name)].active_material =
                glass_material_name]
       /\ UNCHANGED <<locals, hostScene, registry, materials, cameras,
                      lights, files>>

\* ------------------------------------- lines 148-183: render and save
\* blender.RenderData(cam_data=(stereo_system.cam_data_0,
\*     stereo_system.cam_data_1), base_dir=base_dir, threads=8, samples=40)
RenderData(stereo_system, base_dir) ==
    [cam_data |-> <<stereo_system.cam_data_0, stereo_system.cam_data_1>>,
     base_dir |-> base_dir, threads |-> threads, samples |-> samples]

\* render_data = blender.RenderData(..)
L157_render_data ==
    \/ Issue(157, "blender.RenderData",
             <<RenderData(locals["stereo_system"], locals["base_dir"])>>)
    \/ /\ Returns(157, 166)
       /\ locals' = Bind("render_data",
            RenderData(locals["stereo_system"], locals["base_dir"]))
       /\ UNCHANGED host

\* The object and the mesh line 166 hands to the deformed-image render.
RenderPart == locals["window"]

RenderMesh == locals["render_mesh2"]

\* The images the renderer writes: one for each camera of the render data at
\* each timestep of the mesh, under <base_dir>/blenderimages; what they
\* show depends on the renderer's sampling.
RenderedImages(render_mesh, render_data, noise) ==
    [i \in 1 .. (Len(render_data.cam_data) * render_mesh.sim_data.timesteps)
        |-> File("image",
                 PathJoin(render_data.base_dir, <<"blenderimages">>),
                 <<(i - 1) % Len(render_data.cam_data),
                   (i - 1) \div Len(render_data.cam_data)>>,
                 <<noise>>)]

\* scene.render_deformed_images(render_mesh=render_mesh2, sim_spat_dim=3,
\*     render_data=render_data, part=window, stage_image=False)
L166_render_deformed_images ==
    \/ Issue(166, "scene.render_deformed_images",
             <<RenderMesh, sim_spat_dim, locals["render_data"], RenderPart,
               FALSE>>)
    \/ /\ Returns(166, 177)
       /\ \E noise \in 0 .. MaxNoise :
            files' = files \o RenderedImages(RenderMesh,
                                             locals["render_data"], noise)
       /\ objects' = [objects EXCEPT ![RenderPart].deformed = TRUE]
       /\ UNCHANGED <<locals, hostScene, registry, materials, cameras,
                      lights>>

\* print("Save directory of the image:", render_data.base_dir / ..)
L177_print ==
    /\ Local(177, 183)
    /\ UNCHANGED locals

\* ProjectDir, were the project saved beside the images.
ProjectDir_images == PathJoin(locals["render_data"].base_dir, <<"blenderimages">>)

\* The directory line 183 hands to the project-file save.
ProjectDir == locals["base_dir"]

\* blender.Tools.save_blender_file(base_dir, override=True)
L183_save_blender_file ==
    \/ Issue(183, "Tools.save_blender_file", <<ProjectDir, TRUE>>)
    \/ /\ Returns(183, 184)
       /\ files' = Append(files, File("blend", ProjectDir, <<"project">>,
                                     <<>>))
       /\ UNCHANGED <<locals, hostScene, objects, registry, materials,
                      cameras, lights>>

\* The last statement has run: the script ends normally.
EndOfModule ==
    /\ status = "running"
    /\ pc = 184
    /\ pending = <<>>
    /\ status' = "done"
    /\ UNCHANGED <<inputs, run, prev, pc, error, locals, pending, calls, host>>

\* ------------------------------------------------------- repeated runs
\* What a finished run leaves behind: the calls it issued and the files.
Archive == [status |-> status, calls |-> calls, files |-> files]

\* The script is run again, in a fresh host, on the same input and
\* parameters.
Rerun ==
    /\ status # "running"
    /\ run < MaxRuns
    /\ run' = run + 1
    /\ prev' = Append(prev, Archive)
    /\ pc' = 33
    /\ status' = "running"
    /\ error' = "none"
    /\ locals' = <<>>
    /\ pending' = <<>>
    /\ calls' = <<>>
    /\ hostScene' = FALSE
    /\ objects' = FreshObjects
    /\ registry' = FreshRegistry
    /\ materials' = <<>>
    /\ cameras' = <<>>
    /\ lights' = <<>>
    /\ files' = <<>>
    /\ UNCHANGED inputs

\* ---------------------------------------------------- the specifications
Step ==
    \/ L33_data_path1
    \/ L34_sim_data1
    \/ L36_data_path2
    \/ L37_sim_data2
    \/ L47_scale1
    \/ L50_scale2
    \/ L54_render_mesh1
    \/ L59_render_mesh2
    \/ L70_base_dir
    \/ L78_scene
    \/ L81_part
    \/ L82_window
    \/ L85_move_window
    \/ L88_rotate_part
    \/ L90_cam_data_0
    \/ L99_if_stereo_setup
    \/ L100_symmetric
    \/ L104_faceon
    \/ L108_raise
    \/ L110_add_stereo_system
    \/ L112_save_calibration
    \/ L114_light_data
    \/ L119_add_light
    \/ L124_material_data
    \/ L125_speckle_path
    \/ L130_mm_px_resolution
    \/ L131_add_speckle
    \/ L137_materials_new
    \/ L138_use_nodes
    \/ L140_glass_node
    \/ L141_ior
    \/ L144_link
    \/ L145_assign_glass
    \/ L157_render_data
    \/ L166_render_deformed_images
    \/ L177_print
    \/ L183_save_blender_file
    \/ EndOfModule
    \/ CollaboratorRaises

Next == Step

Spec == Init /\ [][Next]_vars

\* Repeated runs of the script on the same input.
NextRepeat == Step \/ Rerun

SpecRepeat == Init /\ [][NextRepeat]_vars

\* ------------------------------------------------------------ properties
\* The positions in the call log of the calls issued from `line`.
CallsAt(line) == {i \in DOMAIN calls : calls[i].line = line}

\* The call issued from `line` has been issued and has returned normally.
Completed(line) == CallsAt(line) # {} /\ pc > line

\* The files of a kind among those written.
FilesOf(fs, kind) == {i \in DOMAIN fs : fs[i].kind = kind}

\* The run ended with the 'Unknown stereo_setup' error of line 108.
UnknownStereoSetup == status = "failed" /\ error = "Unknown stereo_setup"

\* C1 as stated: when the run fails with 'Unknown stereo_setup', no host
\* scene has been created, no part has been added, moved or rotated, and no
\* camera data or stereo camera pair has been constructed.
C1_FailsBeforeAnyConstruction ==
    UnknownStereoSetup =>
        /\ ~hostScene
        /\ Len(objects) = Len(FreshObjects)
        /\ CallsAt(85) = {} /\ CallsAt(88) = {}
        /\ ~Bound("cam_data_0")
        /\ ~Bound("stereo_system")
        /\ cameras = <<>>

\* C1 as amended: for every selector outside {"symmetric", "faceon"} the
\* run never goes past line 108 and never ends normally: no stereo camera
\* pair is constructed or added to the scene, no calibration or other file
\* is written, no light or material is made; at line 108 the error is
\* raised, and by then the scene, both parts (the window moved, the part
\* rotated) and the camera data cam_data_0 already exist.
C1_FailsBeforeStereoRig ==
    stereo_setup \notin {"symmetric", "faceon"} =>
        /\ pc <= 108
        /\ status # "done"
        /\ \A i \in DOMAIN calls : calls[i].line < 100
        /\ ~Bound("stereo_system")
        /\ cameras = <<>> /\ lights = <<>> /\ files = <<>>
        /\ materials = <<>>
        /\ pc = 108 =>
            /\ status = "running" => ENABLED L108_raise
            /\ status = "failed" => error = "Unknown stereo_setup"
            /\ hostScene
            /\ Bound("part") /\ Bound("window") /\ Bound("cam_data_0")
            /\ Len(objects) = Len(FreshObjects) + 2
            /\ Completed(85) /\ Completed(88)
            /\ objects[locals["window"]].location = <<0, 0, 200>>

\* C1 witness: a run with an unrecognised selector has raised the error.
C1_Witness ==
    /\ stereo_setup \notin {"symmetric", "faceon"}
    /\ UnknownStereoSetup

\* The construction path a selector names.
PathOf(selector) ==
    IF selector = "symmetric" THEN "CameraTools.symmetric_stereo_cameras"
    ELSE "CameraTools.faceon_stereo_cameras"

\* C2: the selector routes to exactly one construction path with no
\* fall-through: a construction call in the log is the one the selector
\* names (so "faceon" never calls the symmetric one and "symmetric" never
\* the face-on one), and the stereo system bound, added to the scene,
\* calibrated and rendered with is the one that path built.
C2_SelectorRoutes ==
    /\ \A i \in CallsAt(100) \cup CallsAt(104) :
        /\ stereo_setup \in {"symmetric", "faceon"}
        /\ calls[i].fn = PathOf(stereo_setup)
    /\ Cardinality(CallsAt(100) \cup CallsAt(104)) <= 1
    /\ Bound("stereo_system") =>
        locals["stereo_system"].built_by = stereo_setup
    /\ \A i \in DOMAIN cameras : cameras[i] = locals["stereo_system"]
    /\ \A i \in CallsAt(110) : calls[i].args[1].built_by = stereo_setup
    /\ \A i \in CallsAt(112) : calls[i].args[1].built_by = stereo_setup
    /\ \A i \in FilesOf(files, "calibration") :
        files[i].content = <<locals["stereo_system"]>>
    /\ \A i \in CallsAt(166) :
        calls[i].args[3].cam_data =
            <<locals["stereo_system"].cam_data_0,
              locals["stereo_system"].cam_data_1>>

\* C2 witness: a run with the symmetric rig selected has built the rig,
\* added it to the scene, saved its calibration and rendered with it.
C2_Witness ==
    /\ stereo_setup = "symmetric"
    /\ status = "done"
    /\ CallsAt(100) # {} /\ CallsAt(104) = {}
    /\ cameras # <<>>
    /\ FilesOf(files, "calibration") # {}
    /\ FilesOf(files, "image") # {}

\* Two calls are the same call with the same arguments.
SameCall(a, b) == a.line = b.line /\ a.fn = b.fn /\ a.args = b.args

\* The names (directory and file name) of the files written.
FileNames(fs, kind) == {<<fs[i].dir, fs[i].name>> : i \in FilesOf(fs, kind)}

\* The calibration files written, with their content.
Calibrations(fs) ==
    {<<fs[i].dir, fs[i].name, fs[i].content>> : i \in FilesOf(fs, "calibration")}

WriterLine(kind) ==
    IF kind = "calibration" THEN 112 ELSE IF kind = "image" THEN 166 ELSE 183

\* The call issued from `line` raises: the environment fails it, or it is
\* the by-name lookup of an object name the registry does not hold.
Raises(line) ==
    \/ line = failLine
    \/ line = 145 /\ glass_object_name \notin DOMAIN registry

\* What holds in every state of a run as to failures: a call that raises is
\* issued once and is the last call of the log, the run is failed as soon
\* as that call is over, a failed run has no call in progress and is at the
\* statement that failed, and no file is written by a call that raised or
\* by a statement after the failure.
FailureEndsRun ==
    /\ \A i \in DOMAIN calls :
        Raises(calls[i].line) =>
            /\ i = Len(calls)
            /\ Cardinality(CallsAt(calls[i].line)) = 1
            /\ pc = calls[i].line
            /\ pending = <<>> => status = "failed"
    /\ status = "failed" /\ error # "Unknown stereo_setup" =>
        /\ pending = <<>>
        /\ calls # <<>>
        /\ Raises(calls[Len(calls)].line)
    /\ \A i \in DOMAIN files :
        /\ ~Raises(WriterLine(files[i].kind))
        /\ Completed(WriterLine(files[i].kind))

\* C4: every failure raised by a collaborator propagates unhandled: the
\* failing call is never retried, no later step of the script is executed
\* after the failure (no call is issued, nothing is bound, no calibration,
\* image or project file is written), and the run ends failed, for good.
C4_FailurePropagates ==
    /\ []FailureEndsRun
    /\ [][status = "failed" => UNCHANGED vars]_vars

\* C4 witness: the render call has raised after the calibration was saved;
\* the run is failed with the render the last call of the log.
C4_Witness ==
    /\ status = "failed"
    /\ error = "collaborator"
    /\ failLine = 166
    /\ calls[Len(calls)].line = 166
    /\ FilesOf(files, "calibration") # {}
    /\ FilesOf(files, "image") = {}

\* The objects that carry the speckle pattern.
Speckled == {id \in DOMAIN objects : objects[id].speckle # <<>>}

\* C5: the deformation and rendering step deforms the sample, the part
\* that carries the speckle pattern: the object handed to the
\* deformed-image render is the speckled sample and the render mesh handed
\* to it is that object's own mesh.
C5_RenderDeformsSpeckledSample ==
    \A i \in CallsAt(166) :
        /\ calls[i].args[4] \in Speckled
        /\ objects[calls[i].args[4]].mesh = <<calls[i].args[1]>>

\* C6: execution is fully sequential: at most one collaborator call is in
\* progress, it is the last call issued, a statement is reached only with
\* the calls of the statements before it over, and the thread count of
\* line 160 is the one the render configuration carries to the renderer.
C6_Sequential ==
    /\ Len(pending) <= 1
    /\ pending # <<>> =>
        /\ calls # <<>>
        /\ pending[1] = calls[Len(calls)]
        /\ pending[1].line = pc
    /\ \A i \in DOMAIN calls : i < Len(calls) => calls[i].line < pc
    /\ \A i, j \in DOMAIN calls : i < j => calls[i].line < calls[j].line
    /\ Bound("render_data") => locals["render_data"].threads = threads
    /\ \A i \in CallsAt(166) : calls[i].args[3].threads = threads

\* C6 witness: the render is in progress, alone, with the thread count.
C6_Witness ==
    /\ Len(pending) = 1
    /\ pending[1].line = 166
    /\ pending[1].args[3].threads = 8

\* The directory a call writes under.
DirOf(call) ==
    IF call.line = 112 THEN call.args[2]
    ELSE IF call.line = 166 THEN call.args[3].base_dir
    ELSE call.args[1]

\* C8: all outputs of a run are written under one and the same output
\* base directory: the directory handed to the calibration save, the base
\* directory of the render configuration used for the images and the
\* directory handed to the project-file save are the same value, base_dir,
\* and the files are written in it (the images in its blenderimages).
C8_OneBaseDir ==
    /\ \A i, j \in CallsAt(112) \cup CallsAt(166) \cup CallsAt(183) :
        DirOf(calls[i]) = DirOf(calls[j])
    /\ \A i \in CallsAt(112) \cup CallsAt(166) \cup CallsAt(183) :
        DirOf(calls[i]) = locals["base_dir"]
    /\ Bound("base_dir") =>
        locals["base_dir"] = PathJoin(cwd, <<"blender", "glass">>)
    /\ \A i \in DOMAIN files :
        files[i].dir = IF files[i].kind = "image"
                       THEN PathJoin(locals["base_dir"], <<"blenderimages">>)
                       ELSE locals["base_dir"]

\* C8 witness: a run has saved the calibration, rendered and saved the
\* project file.
C8_Witness ==
    /\ status = "done"
    /\ CallsAt(112) # {} /\ CallsAt(166) # {} /\ CallsAt(183) # {}
    /\ FilesOf(files, "calibration") # {}
    /\ FilesOf(files, "image") # {}
    /\ FilesOf(files, "blend") # {}

\* The objects the glass material is on.
Glazed ==
    {id \in DOMAIN objects : objects[id].active_material = glass_material_name}

\* C9: rendering starts only once all the objects have been added: when
\* the render call is issued both parts, the stereo camera pair, the
\* light, the speckle pattern and the glass material assignment are over;
\* the calibration is saved after the stereo system is constructed and
\* before the render; the project file is saved after the render is over.
C9_RenderAfterSetup ==
    /\ CallsAt(166) # {} =>
        /\ Completed(81) /\ Completed(82)
        /\ Completed(110) /\ Completed(119)
        /\ Completed(131) /\ Completed(145)
        /\ Completed(112)
        /\ Len(objects) = Len(FreshObjects) + 2
        /\ cameras # <<>> /\ lights # <<>>
        /\ Speckled # {} /\ Glazed # {}
        /\ FilesOf(files, "calibration") # {}
    /\ CallsAt(112) # {} =>
        /\ Bound("stereo_system")
        /\ Completed(100) \/ Completed(104)
        /\ \A i \in CallsAt(112), j \in CallsAt(166) : i < j
    /\ CallsAt(183) # {} =>
        /\ Completed(166)
        /\ FilesOf(files, "image") # {}
        /\ \A i \in CallsAt(166), j \in CallsAt(183) : i < j

\* C9 witness: the project file is being saved after a render.
C9_Witness ==
    /\ CallsAt(183) # {}
    /\ CallsAt(166) # {}
    /\ FilesOf(files, "image") # {}

\* C10: the glass material is assigned to whatever object the registry
\* holds under "Part.001", looked up by name when it is assigned and not
\* through the references add_part returned: once the assignment is over
\* the glass is on that object and on no other; if no object is registered
\* under the name the assignment fails and there is no render and no
\* project save; if the name is not the window's the glass is on an object
\* other than the window.
C10_GlassByName ==
    /\ Glazed # {} => Completed(145)
    /\ Completed(145) =>
        /\ glass_object_name \in DOMAIN registry
        /\ Glazed = {registry[glass_object_name]}
        /\ registry[glass_object_name] # locals["window"] =>
            /\ locals["window"] \notin Glazed
            /\ \E id \in Glazed : id # locals["window"]
    /\ CallsAt(145) # {} /\ glass_object_name \notin DOMAIN registry =>
        /\ pending = <<>> => status = "failed"
        /\ status # "done"
        /\ CallsAt(166) = {} /\ CallsAt(183) = {}
        /\ FilesOf(files, "image") = {} /\ FilesOf(files, "blend") = {}
        /\ Glazed = {}

\* C10 witness: the host named the sample "Part.001"; the run is over and
\* the glass is on the speckled sample, not on the window.
C10_Witness ==
    /\ status = "done"
    /\ registry[glass_object_name] = locals["part"]
    /\ Glazed = {locals["part"]}
    /\ locals["part"] \in Speckled
    /\ objects[locals["window"]].active_material = "none"

====
